---- MODULE Spec2Model ----
(***************************************************************************)
(* The chat server of akunobi/panashcat: a socket.io server over a         *)
(* PostgreSQL store.  The repository holds several iterations of the same  *)
(* server; the iterations modelled here are                                *)
(*   "server1"  src/server.js lines 1-289                                  *)
(*   "server2"  src/server.js lines 290-525                                *)
(*   "part003"  src/unnamed/part_003 lines 231-524                         *)
(* One behaviour of the model is one run of one iteration (variable        *)
(* variant).  A handler that awaits the store is split at its awaits: the  *)
(* step that issues the query, the store executing it, and the handler's   *)
(* continuation are separate steps that other handlers may interleave.     *)
(* Events and payload keys are written as server.js spells them            *)
(* ('chat_history' with key history for part003's 'chat history' with key  *)
(* messages).  The specifications at the end each take the handlers one    *)
(* group of properties is about, within the bounds named below.            *)
(***************************************************************************)
EXTENDS Integers, FiniteSets, Sequences, Bags, TLC

VARIABLES
    variant,          \* which iteration of the server is running
    status,           \* per socket: "fresh" (not yet connected), "open", "closed"
    username,         \* socket.username, NoUser while undefined
    rooms,            \* per socket: the rooms joined with socket.join
    onlineUsers,      \* const onlineUsers = new Set()
    messages,         \* table messages
    direct_messages,  \* table direct_messages
    seqG,             \* next value of messages.id (SERIAL)
    seqD,             \* next value of direct_messages.id (SERIAL)
    now,              \* Math.floor(Date.now() / 1000)
    tasks,            \* handlers suspended at an await, with their query
    out,              \* the events emitted by the latest step, in order
    resumed,          \* the suspended handler the latest step resumed, if any
    setup,            \* setupDatabase(): "running", "ready" or "failed"
    listening,        \* server.listen(PORT, ...) has been called
    announced         \* per socket, the global ids its received events add up to

vars == <<variant, status, username, rooms, onlineUsers, messages,
          direct_messages, seqG, seqD, now, tasks, out, resumed, setup,
          listening, announced>>

(***************************************************************************)
(* Bounds of the model.                                                    *)
(***************************************************************************)
MaxJoins == 3      \* rooms joined by all sockets together (logins in effect)
StoreJoins == 2    \* the same, in the specifications about the store
MaxSends == 2      \* chat messages sent in one run
RoutedSends == 1   \* the same, in the specifications about delivery
MaxPending == 2    \* handlers suspended at an await at one time
QueryPending == 1  \* the same, in the specification about history
MaxTicks == 2      \* steps of the clock in one run
MaxId == 1         \* the largest id a client asks to delete

(***************************************************************************)
(* Inputs and program constants.                                           *)
(***************************************************************************)
Variants == {"server1", "server2", "part003"}
Conns == {"s1", "s2"}
ALL_USERS == <<"Rafa", "Hugo", "Sergio", "Alvaro">>
allowedUsers == {"Rafa", "Hugo", "Sergio", "Alvaro"}
NoUser == ""                        \* undefined / empty: falsy in JavaScript
Names == {"Rafa", "Hugo", "Sergio"} \* the display names clients log in with
LoginInputs == Names \cup {NoUser}
Targets == Names \cup {"global"}      \* the chats a client opens
SendTargets == {"global", "Hugo"}     \* the chats a client writes to
AnyTargets == SendTargets \cup {NoUser} \* data.target, absent or empty too
Authors == {"Rafa", "Hugo"}           \* the names in the runs about deletion
Texts == {"hola"}
Undefined == "undefined"            \* a JavaScript value that is absent
Null == "null"                      \* SQL NULL, null in JavaScript
Types == {"text"}                   \* data.type as clients send it
UndefinedId == 0 - 1                \* an absent replyTo
NullId == 0                         \* reply_to_id NULL
ReplyTos == {UndefinedId}           \* data.replyTo as clients send it

\* const limit = Math.floor(Date.now() / 1000) - (86400 * 30)   (server1)
\* const timeLimit = Math.floor(Date.now() / 1000) - 1209600    (server2, part003)
RetentionSeconds(v) == IF v = "server1" THEN 86400 * 30 ELSE 1209600

\* The clock is observed once per retention window.
ClockStep(v) == RetentionSeconds(v)

Live == {c \in Conns : status[c] = "open"}

(***************************************************************************)
(* socket.io delivery sets.                                                *)
(***************************************************************************)
\* io.emit: every connected socket
IoEmit == Live

\* io.to(room): the connected sockets that joined room
IoTo(room) == {c \in Live : room \in rooms[c]}

\* io.to(a).to(b): the union of the two rooms, each socket once
IoToTo(a, b) == IoTo(a) \cup IoTo(b)

\* socket.emit: the socket itself, when still connected
SocketEmit(c) == {c} \cap Live

\* An emit to every connected socket, the sender's included.
SocketAll(c) == {d \in Conns : status[d] = "open"}

\* socket.broadcast.emit: every connected socket but the sender
SocketBroadcast(c) == Live \ {c}

Emission(ev, payload, dest) == [event |-> ev, payload |-> payload, to |-> dest]

(***************************************************************************)
(* Presence.                                                               *)
(***************************************************************************)
\* A view in which every name is online.
RosterAllOnline(v, online) ==
    IF v = "server1"
    THEN [i \in 1..Len(ALL_USERS) |-> [name |-> ALL_USERS[i], isOnline |-> TRUE]]
    ELSE allowedUsers

\* server1: ALL_USERS.map(u => ({name: u, isOnline: onlineUsers.has(u)}))
\* server2, part003: Array.from(onlineUsers)
UserList(v, online) ==
    IF v = "server1"
    THEN [i \in 1..Len(ALL_USERS) |->
            [name |-> ALL_USERS[i], isOnline |-> ALL_USERS[i] \in online]]
    ELSE online

\* function broadcastUserList() / io.emit('update_user_list', ...)
BroadcastUserList(v, online) ==
    Emission("update_user_list", UserList(v, online), IoEmit)

\* No handler was resumed by the step.
NoTask == [kind |-> "none"]

(***************************************************************************)
(* What the events received add up to, for each socket.                    *)
(***************************************************************************)
\* Nothing is recorded.
NotTracked == [on |-> FALSE, view |-> [c \in Conns |-> {}]]

\* The ids a socket holds after the emission e reached it: a chat_message
\* of the global chat adds its id, message_deleted removes the id it
\* names, chat_cleared removes every id.
Received(ids, e) ==
    CASE e.event = "chat_message" ->
           IF e.payload.isPrivate THEN ids ELSE ids \cup {e.payload.id}
      [] e.event = "message_deleted" -> ids \ {e.payload}
      [] e.event = "chat_cleared" -> {}
      [] OTHER -> ids

RECURSIVE ReceivedAll(_, _, _)
\* The same after the emissions es, in their order, for the socket c.
ReceivedAll(ids, es, c) ==
    IF es = <<>> THEN ids
    ELSE ReceivedAll(IF c \in Head(es).to THEN Received(ids, Head(es))
                     ELSE ids,
                     Tail(es), c)

\* Every step hands its emissions to the sockets they are sent to.
Announce ==
    announced' =
        IF announced.on
        THEN [announced EXCEPT
                !.view = [c \in Conns |-> ReceivedAll(announced.view[c], out', c)]]
        ELSE announced

Init ==
    /\ variant \in Variants
    /\ status = [c \in Conns |-> "fresh"]
    /\ username = [c \in Conns |-> NoUser]
    /\ rooms = [c \in Conns |-> {}]
    /\ onlineUsers = {}
    /\ messages = {}
    /\ direct_messages = {}
    /\ seqG = 1
    /\ seqD = 1
    /\ now = 0
    /\ tasks = EmptyBag
    /\ out = <<>>
    /\ resumed = NoTask
    /\ setup = "ready"
    /\ listening = TRUE
    /\ announced = NotTracked

\* The state when the module starts to load: setupDatabase() has been
\* called and is at its first await; server.listen is yet to be called.
InitStartup ==
    /\ variant \in Variants
    /\ status = [c \in Conns |-> "fresh"]
    /\ username = [c \in Conns |-> NoUser]
    /\ rooms = [c \in Conns |-> {}]
    /\ onlineUsers = {}
    /\ messages = {}
    /\ direct_messages = {}
    /\ seqG = 1
    /\ seqD = 1
    /\ now = 0
    /\ tasks = EmptyBag
    /\ out = <<>>
    /\ resumed = NoTask
    /\ setup = "running"
    /\ listening = FALSE
    /\ announced = NotTracked

\* The same state as Init, with the events that each socket receives
\* recorded from then on.
InitAnnounced ==
    /\ variant \in Variants
    /\ status = [c \in Conns |-> "fresh"]
    /\ username = [c \in Conns |-> NoUser]
    /\ rooms = [c \in Conns |-> {}]
    /\ onlineUsers = {}
    /\ messages = {}
    /\ direct_messages = {}
    /\ seqG = 1
    /\ seqD = 1
    /\ now = 0
    /\ tasks = EmptyBag
    /\ out = <<>>
    /\ resumed = NoTask
    /\ setup = "ready"
    /\ listening = TRUE
    /\ announced = [NotTracked EXCEPT !.on = TRUE]

Startup == <<setup, listening>>

\* What the start of the process leaves alone.
Serving == <<variant, status, username, rooms, onlineUsers, messages,
             direct_messages, seqG, seqD, now, tasks>>

\* server.listen(PORT, () => ...): the last statement of the module, run
\* before any await of setupDatabase() returns.
Listen ==
    /\ ~listening
    /\ listening' = TRUE
    /\ out' = <<>>
    /\ resumed' = NoTask
    /\ UNCHANGED setup
    /\ UNCHANGED Serving
    /\ Announce

\* const twoWeeksAgo = Math.floor(Date.now() / 1000) - 1209600
PurgeLimit(t) == t - 1209600

\* A purge that spares no row.
PurgeAll(tbl, limit) == {}

\* DELETE FROM messages WHERE timestamp < $1
\* DELETE FROM direct_messages WHERE timestamp < $1
PurgeOld(tbl, limit) == {r \in tbl : ~(r.timestamp < limit)}

\* The table after setupDatabase(): part003 ends it with the purge of the
\* rows older than two weeks; server1 and server2 only create the tables.
AfterSetup(v, tbl, t) ==
    IF v = "part003" THEN PurgeOld(tbl, PurgeLimit(t)) ELSE tbl

\* setupDatabase() runs to its end: the tables exist.
SetupSucceeds ==
    /\ listening
    /\ setup = "running"
    /\ setup' = "ready"
    /\ messages' = AfterSetup(variant, messages, now)
    /\ direct_messages' = AfterSetup(variant, direct_messages, now)
    /\ out' = <<>>
    /\ resumed' = NoTask
    /\ UNCHANGED listening
    /\ UNCHANGED <<variant, status, username, rooms, onlineUsers, seqG, seqD,
                   now, tasks>>
    /\ Announce

\* The process ends between two requests and the module is loaded again:
\* every socket is gone, onlineUsers is a new empty Set, setupDatabase() is
\* called and server.listen is yet to be called.  The tables are kept by
\* PostgreSQL.
Restart ==
    /\ tasks = EmptyBag
    /\ status' = [c \in Conns |->
                    IF status[c] = "open" THEN "closed" ELSE status[c]]
    /\ rooms' = [c \in Conns |-> {}]
    /\ onlineUsers' = {}
    /\ setup' = "running"
    /\ listening' = FALSE
    /\ out' = <<>>
    /\ resumed' = NoTask
    /\ UNCHANGED <<variant, username, messages, direct_messages, seqG, seqD,
                   now, tasks>>
    /\ Announce

\* A query of setupDatabase() rejects: catch (err) { console.error(...) }
SetupFails ==
    /\ listening
    /\ setup = "running"
    /\ setup' = "failed"
    /\ out' = <<>>
    /\ resumed' = NoTask
    /\ UNCHANGED listening
    /\ UNCHANGED Serving
    /\ Announce

\* io.on('connection', (socket) => ...)
Connect(c) ==
    /\ listening
    /\ status[c] = "fresh"
    /\ status' = [status EXCEPT ![c] = "open"]
    /\ out' = <<>>
    /\ resumed' = NoTask
    /\ UNCHANGED <<variant, username, rooms, onlineUsers, messages,
                   direct_messages, seqG, seqD, now, tasks>>
    /\ UNCHANGED Startup
    /\ Announce

\* A login handler without the test of the name.
LoginUnchecked(v, name) == TRUE

\* The guard of the login handler: if (!username) return;  part003 admits
\* only the names of allowedUsers.
LoginAccepted(v, name) ==
    IF v = "part003" THEN name \in allowedUsers ELSE name # NoUser

\* A join that has not taken effect when the handler goes on.
JoinLater(rs, name) == rs

\* The rooms of a socket after socket.join(name)
JoinRoom(rs, name) == rs \cup {name}

\* onlineUsers.add(name)
OnlineAdd(online, name) == online \cup {name}

\* onlineUsers.delete(name)
OnlineDelete(online, name) == online \ {name}

(***************************************************************************)
(* Handlers that do not touch the store.                                   *)
(***************************************************************************)
\* What the login handler emits once the registry is updated.
\*   server1: socket.emit('login_success'), broadcastUserList()
\*   server2: socket.emit('login_success'), io.emit('update_user_list'),
\*            io.emit('system_message')
\*   part003: callback(true), io.emit('update user list'),
\*            io.emit('system message')
LoginEmits(v, c, name, online) ==
    CASE v = "server1" ->
           << Emission("login_success", name, SocketEmit(c)),
              BroadcastUserList(v, online) >>
      [] v = "server2" ->
           << Emission("login_success", name, SocketEmit(c)),
              BroadcastUserList(v, online),
              Emission("system_message", name, IoEmit) >>
      [] OTHER ->
           << Emission("login_callback", TRUE, SocketEmit(c)),
              BroadcastUserList(v, online),
              Emission("system_message", name, IoEmit) >>

\* A handler suspended at an await: the query it issued with its parameters
\* (user is socket.username as passed to the query), the handler's locals,
\* the result res of the query once the store has executed it, and the
\* number of rows the handler's earlier statements removed.
Task(c, kind, user, target, ts, id, data) ==
    [conn |-> c, kind |-> kind, phase |-> "issued", user |-> user,
     target |-> target, ts |-> ts, id |-> id, data |-> data, res |-> <<>>,
     removed |-> 0]

NoData == [text |-> Undefined, type |-> Undefined, replyTo |-> UndefinedId]

Suspend(t) == tasks (+) SetToBag({t})

\* part003: the login handler goes on to load the global history
\* (const twoWeeksAgo = ...; await db.query(SELECT ... FROM messages ...))
LoginHistoryTask(c, name) ==
    Task(c, "loginHistory", name, "global",
         now - RetentionSeconds("part003"), 0, NoData)

\* socket.on('login', (username) => ...)
Login(c, name) ==
    /\ status[c] = "open"
    /\ resumed' = NoTask
    /\ IF LoginAccepted(variant, name)
       THEN /\ username' = [username EXCEPT ![c] = name]
            /\ rooms' = [rooms EXCEPT ![c] = JoinRoom(rooms[c], name)]
            /\ onlineUsers' = OnlineAdd(onlineUsers, name)
            /\ out' = LoginEmits(variant, c, name, onlineUsers')
            /\ tasks' = IF variant = "part003"
                        THEN Suspend(LoginHistoryTask(c, name))
                        ELSE tasks
       ELSE /\ UNCHANGED <<username, rooms, onlineUsers, tasks>>
            /\ out' = IF variant = "part003"
                      THEN << Emission("login_callback", FALSE, SocketEmit(c)) >>
                      ELSE <<>>
    /\ UNCHANGED <<variant, status, messages, direct_messages, seqG, seqD, now>>
    /\ UNCHANGED Startup
    /\ Announce

\* The typing handlers of part003 test socket.username; the others do not.
TypingGuard(v, user) == v = "part003" => user # NoUser

\* socket.on('typing', () => socket.broadcast.emit('user_typing', socket.username))
Typing(c) ==
    /\ status[c] = "open"
    /\ resumed' = NoTask
    /\ out' = IF TypingGuard(variant, username[c])
              THEN << Emission("user_typing", username[c], SocketBroadcast(c)) >>
              ELSE <<>>
    /\ UNCHANGED <<variant, status, username, rooms, onlineUsers, messages,
                   direct_messages, seqG, seqD, now, tasks>>
    /\ UNCHANGED Startup
    /\ Announce

\* socket.on('stop_typing', ...)
StopTyping(c) ==
    /\ status[c] = "open"
    /\ resumed' = NoTask
    /\ out' = IF TypingGuard(variant, username[c])
              THEN << Emission("user_stop_typing", username[c], SocketBroadcast(c)) >>
              ELSE <<>>
    /\ UNCHANGED <<variant, status, username, rooms, onlineUsers, messages,
                   direct_messages, seqG, seqD, now, tasks>>
    /\ UNCHANGED Startup
    /\ Announce

\* What the disconnect handler emits; the socket has already left the
\* namespace and its rooms when the handler runs.
DisconnectEmits(v, name, online, dest) ==
    IF v = "part003"
    THEN << Emission("update_user_list", UserList(v, online), dest),
            Emission("system_message", name, dest) >>
    ELSE << Emission("update_user_list", UserList(v, online), dest) >>

\* A disconnection that cancels the queries the socket's handlers await.
CancelRequests(c) ==
    [t \in {u \in BagToSet(tasks) : u.conn # c} |-> tasks[t]]

\* The handlers awaiting the store once socket c has disconnected: the
\* disconnect handler cancels no query, and the awaits of the socket's
\* other handlers go on.
AfterDisconnect(c) == tasks

\* socket.on('disconnect', () => ...)
Disconnect(c) ==
    /\ status[c] = "open"
    /\ status' = [status EXCEPT ![c] = "closed"]
    /\ rooms' = [rooms EXCEPT ![c] = {}]
    /\ tasks' = AfterDisconnect(c)
    /\ resumed' = NoTask
    /\ IF username[c] # NoUser
       THEN /\ onlineUsers' = OnlineDelete(onlineUsers, username[c])
            /\ out' = DisconnectEmits(variant, username[c], onlineUsers',
                                      Live \ {c})
       ELSE /\ out' = <<>>
            /\ UNCHANGED onlineUsers
    /\ UNCHANGED <<variant, username, messages, direct_messages, seqG, seqD,
                   now>>
    /\ UNCHANGED Startup
    /\ Announce

\* The clock advances between handlers.
Tick ==
    /\ now' = now + ClockStep(variant)
    /\ out' = <<>>
    /\ resumed' = NoTask
    /\ UNCHANGED <<variant, status, username, rooms, onlineUsers, messages,
                   direct_messages, seqG, seqD, tasks>>
    /\ UNCHANGED Startup
    /\ Announce

(***************************************************************************)
(* The store: the SQL statements of the handlers.                          *)
(***************************************************************************)
\* node-postgres sends an undefined parameter as NULL.
ToSql(x) == IF x = Undefined THEN Null ELSE x

ToSqlId(x) == IF x = UndefinedId THEN NullId ELSE x

\* col = $n is never true of a NULL parameter (socket.username undefined).
SqlEq(col, param) == param # NoUser /\ col = param

\* INSERT INTO messages (user_name, text, timestamp, reply_to_id, message_type)
\* VALUES ($1, $2, $3, $4, $5) RETURNING id
GlobalRow(id, t) ==
    [id |-> id, user_name |-> t.user, text |-> t.data.text,
     timestamp |-> t.ts, reply_to_id |-> ToSqlId(t.data.replyTo),
     message_type |-> ToSql(t.data.type)]

\* INSERT INTO direct_messages (sender, receiver, text, timestamp,
\* reply_to_id, message_type) VALUES ($1, $2, $3, $4, $5, $6) RETURNING id
DirectRow(id, t) ==
    [id |-> id, sender |-> t.user, receiver |-> t.target,
     text |-> t.data.text, timestamp |-> t.ts,
     reply_to_id |-> ToSqlId(t.data.replyTo),
     message_type |-> ToSql(t.data.type)]

\* A query without the condition on timestamp.
InWindowAlways(v, ts, limit) == TRUE

\* WHERE timestamp > $1 (server1, server2); WHERE timestamp >= $1 (part003)
InWindow(v, ts, limit) == IF v = "part003" THEN ts >= limit ELSE ts > limit

\* SELECT * FROM messages WHERE timestamp > $1
SelectGlobal(v, tbl, limit) == {r \in tbl : InWindow(v, r.timestamp, limit)}

\* A condition that tests the other party alone, and not the requester.
DirectWithOther(r, me, other) ==
    SqlEq(r.sender, other) \/ SqlEq(r.receiver, other)

\* ... AND ((sender=$2 AND receiver=$3) OR (sender=$3 AND receiver=$2))
DirectBetween(r, me, other) ==
    \/ (SqlEq(r.sender, me) /\ SqlEq(r.receiver, other))
    \/ (SqlEq(r.sender, other) /\ SqlEq(r.receiver, me))

\* SELECT * FROM direct_messages WHERE timestamp > $1 AND (...)
SelectDirect(v, tbl, limit, me, other) ==
    {r \in tbl : InWindow(v, r.timestamp, limit) /\ DirectBetween(r, me, other)}

\* The sort key of the history queries: ORDER BY id ASC (server1, server2),
\* ORDER BY timestamp ASC (part003).
OrderKey(v, r) == IF v = "part003" THEN r.timestamp ELSE r.id

\* The row sequences a query may return for rows: every order of the rows
\* that is ascending in the sort key (rows of equal key come in any order).
Ordered(v, rows) ==
    {s \in [1..Cardinality(rows) -> rows] :
        /\ \A i, j \in DOMAIN s : i # j => s[i] # s[j]
        /\ \A i, j \in DOMAIN s : i < j => OrderKey(v, s[i]) <= OrderKey(v, s[j])}

\* server1 passes [socket.username, target] to a direct-history query whose
\* text uses $1 both as the bound of the BIGINT column timestamp and as the
\* value of the TEXT column sender: PostgreSQL rejects the statement, and
\* db.query throws.
DirectHistoryFails(v) == v = "server1"

\* A DELETE keyed by the id alone, whoever asks.
DeleteGlobalUnconditional(tbl, id, user) == {r \in tbl : r.id # id}

\* DELETE FROM messages WHERE id=$1 AND user_name=$2
DeleteGlobalBy(tbl, id, user) ==
    {r \in tbl : ~(r.id = id /\ SqlEq(r.user_name, user))}

\* A DELETE of a direct message keyed by the id alone, whoever asks.
DeleteDirectUnconditional(tbl, id, user) == {r \in tbl : r.id # id}

\* DELETE FROM direct_messages WHERE id=$1 AND sender=$2
DeleteDirectBy(tbl, id, user) ==
    {r \in tbl : ~(r.id = id /\ SqlEq(r.sender, user))}

\* DELETE FROM messages WHERE id = $1 / DELETE FROM direct_messages WHERE id = $1
DeleteById(tbl, id) == {r \in tbl : r.id # id}

\* DELETE FROM messages
DeleteAll(tbl) == {}

\* SELECT user_name FROM messages WHERE id = $1
\* SELECT sender, receiver FROM direct_messages WHERE id = $1
SelectById(tbl, id) == {r \in tbl : r.id = id}

(***************************************************************************)
(* Envelopes: the objects sent to clients.                                 *)
(***************************************************************************)
\* The msg / data object the send handler builds after the insert returned:
\* user is socket.username as read at that moment, d the handler's locals.
GlobalMsg(v, id, user, ts, d) ==
    CASE v = "server1" ->
           [id |-> id, user |-> user, text |-> d.text, timestamp |-> ts,
            replyTo |-> d.replyTo, type |-> d.type, isPrivate |-> FALSE]
      [] v = "server2" ->
           [id |-> id, user |-> user, text |-> d.text, timestamp |-> ts,
            reply_to_id |-> d.replyTo, message_type |-> d.type,
            isPrivate |-> FALSE]
      [] OTHER ->
           [id |-> id, user |-> user, text |-> d.text, timestamp |-> ts,
            reply_to_id |-> d.replyTo, type |-> "text", isPrivate |-> FALSE]

DirectMsg(v, id, user, target, ts, d) ==
    CASE v = "server1" ->
           [id |-> id, user |-> user, text |-> d.text, timestamp |-> ts,
            replyTo |-> d.replyTo, type |-> d.type, isPrivate |-> TRUE,
            receiver |-> target]
      [] v = "server2" ->
           [id |-> id, user |-> user, text |-> d.text, timestamp |-> ts,
            reply_to_id |-> d.replyTo, message_type |-> d.type,
            isPrivate |-> TRUE, receiver |-> target]
      [] OTHER ->
           [id |-> id, user |-> user, text |-> d.text, timestamp |-> ts,
            reply_to_id |-> d.replyTo, type |-> "text", isPrivate |-> TRUE,
            receiver |-> target]

\* history = res.rows.map(row => ({...}))  for the global table; part003
\* sends the selected columns as they are (no isPrivate).
GlobalHistoryRow(v, row) ==
    CASE v = "server1" ->
           [id |-> row.id, user |-> row.user_name, text |-> row.text,
            timestamp |-> row.timestamp, replyTo |-> row.reply_to_id,
            type |-> row.message_type, isPrivate |-> FALSE]
      [] v = "server2" ->
           [id |-> row.id, user |-> row.user_name, text |-> row.text,
            timestamp |-> row.timestamp, reply_to_id |-> row.reply_to_id,
            message_type |-> row.message_type, isPrivate |-> FALSE]
      [] OTHER ->
           [id |-> row.id, user |-> row.user_name, text |-> row.text,
            timestamp |-> row.timestamp, reply_to_id |-> row.reply_to_id,
            type |-> row.message_type]

\* history = res.rows.map(row => ({...}))  for the direct table
DirectHistoryRow(v, row) ==
    CASE v = "server1" ->
           [id |-> row.id, user |-> row.sender, text |-> row.text,
            timestamp |-> row.timestamp, replyTo |-> row.reply_to_id,
            type |-> row.message_type, isPrivate |-> TRUE,
            receiver |-> row.receiver]
      [] v = "server2" ->
           [id |-> row.id, user |-> row.sender, text |-> row.text,
            timestamp |-> row.timestamp, reply_to_id |-> row.reply_to_id,
            message_type |-> row.message_type, isPrivate |-> TRUE,
            receiver |-> row.receiver]
      [] OTHER ->
           [id |-> row.id, user |-> row.sender, text |-> row.text,
            timestamp |-> row.timestamp, reply_to_id |-> row.reply_to_id,
            type |-> row.message_type, receiver |-> row.receiver,
            isPrivate |-> TRUE]

\* The history sent to the room of the requester's name.
HistoryEmitToRoom(v, c, private, rows, context) ==
    Emission("chat_history",
             [history |-> [i \in DOMAIN rows |->
                             IF private THEN DirectHistoryRow(v, rows[i])
                             ELSE GlobalHistoryRow(v, rows[i])],
              context |-> context],
             IoTo(username[c]))

\* socket.emit('chat_history', { history, context: target })
HistoryEmit(v, c, private, rows, context) ==
    Emission("chat_history",
             [history |-> [i \in DOMAIN rows |->
                             IF private THEN DirectHistoryRow(v, rows[i])
                             ELSE GlobalHistoryRow(v, rows[i])],
              context |-> context],
             SocketEmit(c))

(***************************************************************************)
(* Handlers that query the store: the step up to the first await.          *)
(***************************************************************************)
Idle ==
    /\ resumed' = NoTask
    /\ UNCHANGED <<variant, status, username, rooms, onlineUsers, messages,
                   direct_messages, seqG, seqD, now>>
    /\ UNCHANGED Startup

\* The chat messages sent so far: the rows inserted and the inserts in flight.
InsertsInFlight ==
    LET S == {t \in BagToSet(tasks) :
                t.kind \in {"insertG", "insertD"} /\ t.phase = "issued"}
    IN  BagCardinality([t \in S |-> tasks[t]])

SendsSoFar == (seqG - 1) + (seqD - 1) + InsertsInFlight

\* The ids a client asks to delete.
Ids == 1..MaxId

\* The rooms joined by all sockets together, once socket c has joined name.
JoinsWith(c, name) ==
    LET after == [rooms EXCEPT ![c] = rooms[c] \cup ({name} \ {NoUser})]
        count[S \in SUBSET Conns] ==
            IF S = {} THEN 0
            ELSE LET x == CHOOSE x \in S : TRUE
                 IN  Cardinality(after[x]) + count[S \ {x}]
    IN  count[Conns]

Pending == BagCardinality(tasks)

\* Whether a send goes to the global table.
\*   server1, server2: if (target === 'global')
\*   part003: if (targetUser && targetUser !== 'global') is the direct branch
SendIsGlobal(v, target) ==
    IF v = "part003" THEN target = NoUser \/ target = "global"
    ELSE target = "global"

\* socket.on('join_chat', async ({ target }) => ...)
\* part003: socket.on('join chat', async ({ target, type }) => ...), with
\* type 'global' for the target 'global' and 'private' otherwise.
JoinChat(c, target) ==
    /\ status[c] = "open"
    /\ Idle
    /\ out' = <<>>
    /\ IF username[c] = NoUser
       THEN UNCHANGED tasks
       ELSE tasks' = Suspend(Task(c, "history", username[c], target,
                                  now - RetentionSeconds(variant), 0, NoData))
    /\ Announce

\* socket.on('chat_message', async (data) => ...)
\* part003: socket.on('chat message', async (msg, replyToId, targetUser) => ...)
ChatMessage(c, target, text, type, replyTo) ==
    /\ status[c] = "open"
    /\ Idle
    /\ out' = <<>>
    /\ IF username[c] = NoUser
       THEN UNCHANGED tasks
       ELSE tasks' = Suspend(Task(c,
                       IF SendIsGlobal(variant, target) THEN "insertG"
                       ELSE "insertD",
                       username[c], target, now, 0,
                       [text |-> text,
                        type |-> IF variant = "part003" THEN "text" ELSE type,
                        replyTo |-> replyTo]))
    /\ Announce

\* The delete handler of part003 starts with if (!socket.username) return;
\* those of server1 and server2 have no such test.
DeleteGuard(v, user) == v = "part003" => user # NoUser

\* socket.on('delete_message', async (id) => ...): the first statement is
\*   server1, server2: DELETE FROM messages WHERE id=$1 AND user_name=$2
\*   part003: SELECT user_name FROM messages WHERE id = $1
DeleteMessage(c, id) ==
    /\ status[c] = "open"
    /\ Idle
    /\ out' = <<>>
    /\ IF ~DeleteGuard(variant, username[c])
       THEN UNCHANGED tasks
       ELSE tasks' = Suspend(Task(c,
                       IF variant = "part003" THEN "selG" ELSE "delG",
                       username[c], NoUser, 0, id, NoData))
    /\ Announce

\* socket.on('clear_chat', async () => ...)
ClearChat(c) ==
    /\ status[c] = "open"
    /\ Idle
    /\ out' = <<>>
    /\ IF username[c] = NoUser
       THEN UNCHANGED tasks
       ELSE tasks' = Suspend(Task(c, "clear", username[c], NoUser, 0, 0,
                                  NoData))
    /\ Announce

(***************************************************************************)
(* The store executes a statement that a handler is awaiting.              *)
(***************************************************************************)
Replace(t, u) == (tasks (-) SetToBag({t})) (+) SetToBag({u})

Finish(t) == tasks (-) SetToBag({t})

Done(t, rows) == [t EXCEPT !.phase = "done", !.res = rows]

Failed(t) == [t EXCEPT !.phase = "failed"]

Registry == <<variant, status, username, rooms, onlineUsers, now, setup,
              listening>>

\* The rows a DELETE removed from tbl, as node-postgres reports them.
RowCount(tbl, after) == Cardinality(tbl \ after)

\* The rows a SELECT of task t reads.
SelectedRows(v, t) ==
    CASE t.kind = "selG" -> SelectById(messages, t.id)
      [] t.kind = "selD" -> SelectById(direct_messages, t.id)
      [] t.target = "global" -> SelectGlobal(v, messages, t.ts)
      [] OTHER -> SelectDirect(v, direct_messages, t.ts, t.user, t.target)

\* A SELECT: the history queries and the look-ups of part003's delete.
StoreSelect(t) ==
    /\ t.phase = "issued"
    /\ t.kind \in {"history", "loginHistory", "selG", "selD"}
    /\ IF t.kind = "history" /\ t.target # "global" /\ DirectHistoryFails(variant)
       THEN tasks' = Replace(t, Failed(t))
       ELSE \E rows \in Ordered(variant, SelectedRows(variant, t)) :
                tasks' = Replace(t, Done(t, rows))
    /\ out' = <<>>
    /\ resumed' = NoTask
    /\ UNCHANGED <<messages, direct_messages, seqG, seqD>>
    /\ UNCHANGED Registry
    /\ Announce

\* An INSERT ... RETURNING id.
StoreInsert(t) ==
    /\ t.phase = "issued"
    /\ t.kind \in {"insertG", "insertD"}
    /\ IF t.kind = "insertG"
       THEN /\ messages' = messages \cup {GlobalRow(seqG, t)}
            /\ seqG' = seqG + 1
            /\ tasks' = Replace(t, Done(t, << [id |-> seqG] >>))
            /\ UNCHANGED <<direct_messages, seqD>>
       ELSE /\ direct_messages' = direct_messages \cup {DirectRow(seqD, t)}
            /\ seqD' = seqD + 1
            /\ tasks' = Replace(t, Done(t, << [id |-> seqD] >>))
            /\ UNCHANGED <<messages, seqG>>
    /\ out' = <<>>
    /\ resumed' = NoTask
    /\ UNCHANGED Registry
    /\ Announce

\* db.query rejects (the store is unreachable, or refuses the statement):
\* nothing is written.
StoreReject(t) ==
    /\ t.phase = "issued"
    /\ t.kind \in {"insertG", "insertD", "clear"}
    /\ tasks' = Replace(t, Failed(t))
    /\ out' = <<>>
    /\ resumed' = NoTask
    /\ UNCHANGED <<messages, direct_messages, seqG, seqD>>
    /\ UNCHANGED Registry
    /\ Announce

\* A clear that removes the rows of the requester alone.
GlobalAfterOwnClear(t) ==
    CASE t.kind = "delG" -> DeleteGlobalBy(messages, t.id, t.user)
      [] t.kind = "delGid" -> DeleteById(messages, t.id)
      [] t.kind = "clear" -> {r \in messages : r.user_name # t.user}
      [] OTHER -> messages

\* The table messages after the DELETE of task t.
GlobalAfterDelete(t) ==
    CASE t.kind = "delG" -> DeleteGlobalBy(messages, t.id, t.user)
      [] t.kind = "delGid" -> DeleteById(messages, t.id)
      [] t.kind = "clear" -> DeleteAll(messages)
      [] OTHER -> messages

\* The table direct_messages after the DELETE of task t.
DirectAfterDelete(t) ==
    CASE t.kind = "delD" -> DeleteDirectBy(direct_messages, t.id, t.user)
      [] t.kind = "delDid" -> DeleteById(direct_messages, t.id)
      [] OTHER -> direct_messages

\* A DELETE.
StoreDelete(t) ==
    /\ t.phase = "issued"
    /\ t.kind \in {"delG", "delD", "delGid", "delDid", "clear"}
    /\ messages' = GlobalAfterDelete(t)
    /\ direct_messages' = DirectAfterDelete(t)
    /\ tasks' = Replace(t, Done(t,
                 << [rowCount |-> RowCount(messages, messages')
                                  + RowCount(direct_messages, direct_messages')] >>))
    /\ out' = <<>>
    /\ resumed' = NoTask
    /\ UNCHANGED <<seqG, seqD>>
    /\ UNCHANGED Registry
    /\ Announce

(***************************************************************************)
(* Continuations: the handler resumes after its await.                     *)
(***************************************************************************)
Store == <<messages, direct_messages, seqG, seqD>>

\* join_chat after the SELECT: socket.emit('chat_history', ...), or the catch
\* block when the query failed.  Also the history load of part003's login.
ResumeHistory(t) ==
    /\ t.kind \in {"history", "loginHistory"}
    /\ t.phase \in {"done", "failed"}
    /\ out' = IF t.phase = "done"
              THEN << HistoryEmit(variant, t.conn, t.target # "global", t.res,
                                  t.target) >>
              ELSE <<>>
    /\ tasks' = Finish(t)
    /\ resumed' = t
    /\ UNCHANGED Store
    /\ UNCHANGED Registry
    /\ Announce

\* The emits of a direct message.
\*   server1: io.to(target).emit(...); io.to(socket.username).emit(...)
\*   server2, part003: io.to(socket.username).to(target).emit(...)
DirectEmits(v, msg, user, target) ==
    IF v = "server1"
    THEN << Emission("chat_message", msg, IoTo(target)),
            Emission("chat_message", msg, IoTo(user)) >>
    ELSE << Emission("chat_message", msg, IoToTo(user, target)) >>

\* An emit of a global message to the sender's room alone.
GlobalEmitsToSender(msg) == << Emission("chat_message", msg, IoTo(msg.user)) >>

\* The emit of a global message: io.emit('chat_message', msg)
GlobalEmits(msg) == << Emission("chat_message", msg, IoEmit) >>

\* chat_message after the INSERT returned its id.
ResumeInsert(t) ==
    /\ t.kind \in {"insertG", "insertD"}
    /\ t.phase = "done"
    /\ tasks' = Finish(t)
    /\ resumed' = t
    /\ out' = IF t.kind = "insertG"
              THEN GlobalEmits(GlobalMsg(variant, t.res[1].id,
                                         username[t.conn], t.ts, t.data))
              ELSE DirectEmits(variant,
                               DirectMsg(variant, t.res[1].id, username[t.conn],
                                         t.target, t.ts, t.data),
                               username[t.conn], t.target)
    /\ UNCHANGED Store
    /\ UNCHANGED Registry
    /\ Announce

\* A catch block that issues the statement again.
RetryInsert(t) == Replace(t, [t EXCEPT !.phase = "issued"])

\* The handlers awaiting the store once the catch block of chat_message has
\* run: the handler ends.
AfterFailedInsert(t) == Finish(t)

\* chat_message when the INSERT was rejected:
\* catch(e) { console.error("Error guardando mensaje:", e); }
ResumeInsertFailed(t) ==
    /\ t.kind \in {"insertG", "insertD"}
    /\ t.phase = "failed"
    /\ out' = <<>>
    /\ tasks' = AfterFailedInsert(t)
    /\ resumed' = t
    /\ UNCHANGED Store
    /\ UNCHANGED Registry
    /\ Announce

\* A notice of the deletion to the sockets that are logged in alone.
DeletedToLoggedIn(id) ==
    << Emission("message_deleted", id, {c \in Live : username[c] # NoUser}) >>

\* io.emit('message_deleted', id)
DeletedToAll(id) == << Emission("message_deleted", id, IoEmit) >>

\* io.to(socket.username).to(res.rows[0].receiver).emit('message deleted', id)
DeletedToPair(id, user, receiver) ==
    << Emission("message_deleted", id, IoToTo(user, receiver)) >>

\* delete_message of server1 and server2: after the first DELETE the second
\* is issued with socket.username as it is then; after the second,
\* message_deleted is emitted.
ResumeDelete(t) ==
    /\ t.kind \in {"delG", "delD"}
    /\ t.phase = "done"
    /\ IF t.kind = "delG"
       THEN /\ tasks' = Replace(t,
                 [Task(t.conn, "delD", username[t.conn], NoUser, 0, t.id, NoData)
                    EXCEPT !.removed = t.res[1].rowCount])
            /\ out' = <<>>
       ELSE /\ tasks' = Finish(t)
            /\ out' = DeletedToAll(t.id)
    /\ resumed' = t
    /\ UNCHANGED Store
    /\ UNCHANGED Registry
    /\ Announce

\* if (res.rows.length > 0 && res.rows[0].user_name === socket.username)
OwnsRow(rows, author, user) == Len(rows) > 0 /\ author = user

\* delete message of part003: SELECT, test the author against socket.username
\* as it is then, DELETE by id, emit.
ResumeDeleteChecked(t) ==
    /\ t.kind \in {"selG", "delGid", "selD", "delDid"}
    /\ t.phase = "done"
    /\ CASE t.kind = "selG" ->
              /\ tasks' = Replace(t,
                   IF OwnsRow(t.res, IF Len(t.res) > 0 THEN t.res[1].user_name
                                     ELSE NoUser, username[t.conn])
                   THEN Task(t.conn, "delGid", username[t.conn], NoUser, 0,
                             t.id, NoData)
                   ELSE Task(t.conn, "selD", username[t.conn], NoUser, 0, t.id,
                             NoData))
              /\ out' = <<>>
         [] t.kind = "delGid" ->
              /\ tasks' = Finish(t)
              /\ out' = DeletedToAll(t.id)
         [] t.kind = "selD" ->
              IF OwnsRow(t.res, IF Len(t.res) > 0 THEN t.res[1].sender
                                ELSE NoUser, username[t.conn])
              THEN /\ tasks' = Replace(t, Task(t.conn, "delDid",
                                               username[t.conn],
                                               t.res[1].receiver, 0, t.id,
                                               NoData))
                   /\ out' = <<>>
              ELSE /\ tasks' = Finish(t)
                   /\ out' = <<>>
         [] OTHER ->
              /\ tasks' = Finish(t)
              /\ out' = DeletedToPair(t.id, username[t.conn], t.target)
    /\ resumed' = t
    /\ UNCHANGED Store
    /\ UNCHANGED Registry
    /\ Announce

\* clear_chat of server1 and server2 awaits the DELETE outside any try;
\* part003 wraps it in try { ... } catch (err) { console.error(err); }
ClearCatches(v) == v = "part003"

\* The await of clear_chat throws.  Caught (part003): the handler ends.  Not
\* caught (server1, server2): the promise of the async handler rejects with
\* no handler; Node either prints a warning and goes on, or ends the
\* process (the default since Node 15), and with it every socket.
ResumeClearFailed(t) ==
    /\ t.kind = "clear"
    /\ t.phase = "failed"
    /\ resumed' = t
    /\ \/ /\ tasks' = Finish(t)
          /\ out' = <<>>
          /\ UNCHANGED <<status, rooms, onlineUsers, listening>>
       \/ /\ ~ClearCatches(variant)
          /\ tasks' = EmptyBag
          /\ status' = [c \in Conns |->
                          IF status[c] = "open" THEN "closed" ELSE status[c]]
          /\ rooms' = [c \in Conns |-> {}]
          /\ onlineUsers' = {}
          /\ listening' = FALSE
          /\ out' = <<>>
    /\ UNCHANGED <<variant, username, now, setup>>
    /\ UNCHANGED Store
    /\ Announce

\* clear_chat after DELETE FROM messages:
\* io.emit('chat_cleared'); io.emit('system_message', ...)
ResumeClear(t) ==
    /\ t.kind = "clear"
    /\ t.phase = "done"
    /\ out' = << Emission("chat_cleared", Undefined, IoEmit),
                 Emission("system_message", username[t.conn], IoEmit) >>
    /\ tasks' = Finish(t)
    /\ resumed' = t
    /\ UNCHANGED Store
    /\ UNCHANGED Registry
    /\ Announce

(***************************************************************************)
(* Specifications.  Each takes the handlers its properties are about, and  *)
(* keeps the run within the bounds.                                        *)
(***************************************************************************)
\* A login of part003 suspends (it loads the history after it).
LoginFits(c, name, joins, pending) ==
    /\ JoinsWith(c, name) <= joins
    /\ variant = "part003" => Pending < pending

\* The registry: connections, logins, typing, disconnections.
NextPresence ==
    \/ \E c \in Conns : Connect(c)
    \/ \E c \in Conns : \E name \in LoginInputs :
         LoginFits(c, name, MaxJoins, MaxPending) /\ Login(c, name)
    \/ \E c \in Conns : Typing(c)
    \/ \E c \in Conns : StopTyping(c)
    \/ \E c \in Conns : Disconnect(c)
    \/ \E t \in BagToSet(tasks) : StoreSelect(t)
    \/ \E t \in BagToSet(tasks) : ResumeHistory(t)

SpecPresence == Init /\ [][NextPresence]_vars

\* Delivery: logins, disconnections and sends.
NextRouting ==
    \/ \E c \in Conns : Connect(c)
    \/ \E c \in Conns : \E name \in LoginInputs :
         LoginFits(c, name, MaxJoins, MaxPending) /\ Login(c, name)
    \/ \E c \in Conns : Disconnect(c)
    \/ \E c \in Conns : \E target \in SendTargets : \E text \in Texts :
         \E type \in Types : \E replyTo \in ReplyTos :
           /\ Pending < MaxPending
           /\ SendsSoFar < RoutedSends
           /\ ChatMessage(c, target, text, type, replyTo)
    \/ \E t \in BagToSet(tasks) : StoreSelect(t)
    \/ \E t \in BagToSet(tasks) : StoreInsert(t)
    \/ \E t \in BagToSet(tasks) : ResumeHistory(t)
    \/ \E t \in BagToSet(tasks) : ResumeInsert(t)

SpecRouting == Init /\ [][NextRouting]_vars

\* History: sends, deletes, clears, the clock, and the history queries.
NextHistory ==
    \/ \E c \in Conns : Connect(c)
    \/ \E c \in Conns : \E name \in LoginInputs :
         LoginFits(c, name, StoreJoins, QueryPending) /\ Login(c, name)
    \/ now < MaxTicks * ClockStep(variant) /\ Tick
    \/ \E c \in Conns : \E target \in Targets :
         Pending < QueryPending /\ JoinChat(c, target)
    \/ \E c \in Conns : \E target \in SendTargets : \E text \in Texts :
         \E type \in Types : \E replyTo \in ReplyTos :
           /\ Pending < QueryPending
           /\ SendsSoFar < RoutedSends
           /\ ChatMessage(c, target, text, type, replyTo)
    \/ \E c \in Conns : \E id \in Ids :
         Pending < QueryPending /\ DeleteMessage(c, id)
    \/ \E c \in Conns : Pending < QueryPending /\ ClearChat(c)
    \/ \E t \in BagToSet(tasks) : StoreSelect(t)
    \/ \E t \in BagToSet(tasks) : StoreInsert(t)
    \/ \E t \in BagToSet(tasks) : StoreDelete(t)
    \/ \E t \in BagToSet(tasks) : ResumeHistory(t)
    \/ \E t \in BagToSet(tasks) : ResumeInsert(t)
    \/ \E t \in BagToSet(tasks) : ResumeDelete(t)
    \/ \E t \in BagToSet(tasks) : ResumeDeleteChecked(t)
    \/ \E t \in BagToSet(tasks) : ResumeClear(t)

SpecHistory == Init /\ [][NextHistory]_vars

\* Deletion: sends, deletes and clears of connections that interleave.
NextDelete ==
    \/ \E c \in Conns : Connect(c)
    \/ \E c \in Conns : \E name \in Authors :
         LoginFits(c, name, StoreJoins, MaxPending) /\ Login(c, name)
    \/ \E c \in Conns : \E target \in SendTargets : \E text \in Texts :
         \E type \in Types : \E replyTo \in ReplyTos :
           /\ Pending < MaxPending
           /\ SendsSoFar < MaxSends
           /\ ChatMessage(c, target, text, type, replyTo)
    \/ \E c \in Conns : \E id \in Ids :
         Pending < MaxPending /\ DeleteMessage(c, id)
    \/ \E c \in Conns : Pending < MaxPending /\ ClearChat(c)
    \/ \E t \in BagToSet(tasks) : StoreSelect(t)
    \/ \E t \in BagToSet(tasks) : StoreInsert(t)
    \/ \E t \in BagToSet(tasks) : StoreDelete(t)
    \/ \E t \in BagToSet(tasks) : ResumeHistory(t)
    \/ \E t \in BagToSet(tasks) : ResumeInsert(t)
    \/ \E t \in BagToSet(tasks) : ResumeDelete(t)
    \/ \E t \in BagToSet(tasks) : ResumeDeleteChecked(t)
    \/ \E t \in BagToSet(tasks) : ResumeClear(t)

SpecDelete == Init /\ [][NextDelete]_vars

\* Order: sends of connections that interleave while the clock advances, and
\* the history queries that read their rows.
NextOrder ==
    \/ \E c \in Conns : Connect(c)
    \/ \E c \in Conns : \E name \in Authors :
         LoginFits(c, name, StoreJoins, MaxPending) /\ Login(c, name)
    \/ now < MaxTicks * ClockStep(variant) /\ Tick
    \/ \E c \in Conns : \E target \in SendTargets :
         Pending < QueryPending /\ JoinChat(c, target)
    \/ \E c \in Conns : \E target \in SendTargets : \E text \in Texts :
         \E type \in Types : \E replyTo \in ReplyTos :
           /\ Pending < MaxPending
           /\ SendsSoFar < MaxSends
           /\ ChatMessage(c, target, text, type, replyTo)
    \/ \E t \in BagToSet(tasks) : StoreSelect(t)
    \/ \E t \in BagToSet(tasks) : StoreInsert(t)
    \/ \E t \in BagToSet(tasks) : ResumeHistory(t)
    \/ \E t \in BagToSet(tasks) : ResumeInsert(t)

SpecOrder == Init /\ [][NextOrder]_vars

\* Events: every event a client emits, from sockets logged in or not.
NextEvents ==
    \/ \E c \in Conns : Connect(c)
    \/ \E c \in Conns : \E name \in Authors :
         LoginFits(c, name, StoreJoins, QueryPending) /\ Login(c, name)
    \/ \E c \in Conns : \E target \in SendTargets :
         Pending < QueryPending /\ JoinChat(c, target)
    \/ \E c \in Conns : \E target \in SendTargets : \E text \in Texts :
         \E type \in Types : \E replyTo \in ReplyTos :
           /\ Pending < QueryPending
           /\ SendsSoFar < RoutedSends
           /\ ChatMessage(c, target, text, type, replyTo)
    \/ \E c \in Conns : \E id \in Ids :
         Pending < QueryPending /\ DeleteMessage(c, id)
    \/ \E c \in Conns : Pending < QueryPending /\ ClearChat(c)
    \/ \E c \in Conns : Typing(c)
    \/ \E c \in Conns : StopTyping(c)
    \/ \E t \in BagToSet(tasks) : StoreSelect(t)
    \/ \E t \in BagToSet(tasks) : StoreInsert(t)
    \/ \E t \in BagToSet(tasks) : StoreDelete(t)
    \/ \E t \in BagToSet(tasks) : ResumeHistory(t)
    \/ \E t \in BagToSet(tasks) : ResumeInsert(t)
    \/ \E t \in BagToSet(tasks) : ResumeDelete(t)
    \/ \E t \in BagToSet(tasks) : ResumeDeleteChecked(t)
    \/ \E t \in BagToSet(tasks) : ResumeClear(t)

SpecEvents == Init /\ [][NextEvents]_vars

\* Failure: sends whose INSERT the store may reject.
NextFailure ==
    \/ \E c \in Conns : Connect(c)
    \/ \E c \in Conns : \E name \in Authors :
         LoginFits(c, name, StoreJoins, MaxPending) /\ Login(c, name)
    \/ \E c \in Conns : \E target \in SendTargets : \E text \in Texts :
         \E type \in Types : \E replyTo \in ReplyTos :
           /\ Pending < MaxPending
           /\ SendsSoFar < MaxSends
           /\ ChatMessage(c, target, text, type, replyTo)
    \/ \E t \in BagToSet(tasks) : StoreSelect(t)
    \/ \E t \in BagToSet(tasks) : StoreInsert(t)
    \/ \E t \in BagToSet(tasks) : StoreReject(t)
    \/ \E t \in BagToSet(tasks) : ResumeHistory(t)
    \/ \E t \in BagToSet(tasks) : ResumeInsert(t)
    \/ \E t \in BagToSet(tasks) : ResumeInsertFailed(t)

SpecFailure == Init /\ [][NextFailure]_vars

\* Startup: the module loads and listens while setupDatabase() runs, and
\* clients connect, log in and leave.
NextStartup ==
    \/ Listen
    \/ SetupSucceeds
    \/ SetupFails
    \/ \E c \in Conns : Connect(c)
    \/ \E c \in Conns : \E name \in LoginInputs :
         LoginFits(c, name, MaxJoins, MaxPending) /\ Login(c, name)
    \/ \E c \in Conns : Typing(c)
    \/ \E c \in Conns : StopTyping(c)
    \/ \E c \in Conns : Disconnect(c)
    \/ \E t \in BagToSet(tasks) : StoreSelect(t)
    \/ \E t \in BagToSet(tasks) : ResumeHistory(t)

SpecStartup == InitStartup /\ [][NextStartup]_vars

\* Restart: sends and deletions of connections, the clock, and the process
\* that ends and starts again over the same tables.
NextRestart ==
    \/ Listen
    \/ SetupSucceeds
    \/ SetupFails
    \/ Restart
    \/ now < MaxTicks * ClockStep(variant) /\ Tick
    \/ \E c \in Conns : Connect(c)
    \/ \E c \in Conns : \E name \in Authors :
         LoginFits(c, name, StoreJoins, QueryPending) /\ Login(c, name)
    \/ \E c \in Conns : \E target \in SendTargets : \E text \in Texts :
         \E type \in Types : \E replyTo \in ReplyTos :
           /\ Pending < QueryPending
           /\ SendsSoFar < RoutedSends
           /\ ChatMessage(c, target, text, type, replyTo)
    \/ \E c \in Conns : \E id \in Ids :
         Pending < QueryPending /\ DeleteMessage(c, id)
    \/ \E t \in BagToSet(tasks) : StoreSelect(t)
    \/ \E t \in BagToSet(tasks) : StoreInsert(t)
    \/ \E t \in BagToSet(tasks) : StoreDelete(t)
    \/ \E t \in BagToSet(tasks) : ResumeHistory(t)
    \/ \E t \in BagToSet(tasks) : ResumeInsert(t)
    \/ \E t \in BagToSet(tasks) : ResumeDelete(t)
    \/ \E t \in BagToSet(tasks) : ResumeDeleteChecked(t)

SpecRestart == Init /\ [][NextRestart]_vars

\* Targets: sends whose target may be absent or empty.
NextTargets ==
    \/ \E c \in Conns : Connect(c)
    \/ \E c \in Conns : \E name \in Authors :
         LoginFits(c, name, StoreJoins, MaxPending) /\ Login(c, name)
    \/ \E c \in Conns : \E target \in AnyTargets : \E text \in Texts :
         \E type \in Types : \E replyTo \in ReplyTos :
           /\ Pending < MaxPending
           /\ SendsSoFar < MaxSends
           /\ ChatMessage(c, target, text, type, replyTo)
    \/ \E t \in BagToSet(tasks) : StoreSelect(t)
    \/ \E t \in BagToSet(tasks) : StoreInsert(t)
    \/ \E t \in BagToSet(tasks) : ResumeHistory(t)
    \/ \E t \in BagToSet(tasks) : ResumeInsert(t)

SpecTargets == Init /\ [][NextTargets]_vars

\* Failure of a clear: sends and clears whose DELETE the store may reject.
NextClearFailure ==
    \/ \E c \in Conns : Connect(c)
    \/ \E c \in Conns : \E name \in Authors :
         LoginFits(c, name, StoreJoins, MaxPending) /\ Login(c, name)
    \/ \E c \in Conns : \E target \in SendTargets : \E text \in Texts :
         \E type \in Types : \E replyTo \in ReplyTos :
           /\ Pending < MaxPending
           /\ SendsSoFar < RoutedSends
           /\ ChatMessage(c, target, text, type, replyTo)
    \/ \E c \in Conns : Pending < MaxPending /\ ClearChat(c)
    \/ \E t \in BagToSet(tasks) : StoreSelect(t)
    \/ \E t \in BagToSet(tasks) : StoreInsert(t)
    \/ \E t \in BagToSet(tasks) : StoreDelete(t)
    \/ \E t \in BagToSet(tasks) : StoreReject(t)
    \/ \E t \in BagToSet(tasks) : ResumeHistory(t)
    \/ \E t \in BagToSet(tasks) : ResumeInsert(t)
    \/ \E t \in BagToSet(tasks) : ResumeInsertFailed(t)
    \/ \E t \in BagToSet(tasks) : ResumeClear(t)
    \/ \E t \in BagToSet(tasks) : ResumeClearFailed(t)

SpecClearFailure == Init /\ [][NextClearFailure]_vars

\* Every socket is connected and logged in.
AllLoggedIn == \A c \in Conns : status[c] = "open" /\ username[c] # NoUser

\* Announced state: sends, deletes and clears of sockets that are all
\* logged in before the first send, with the events each receives recorded.
NextAnnounced ==
    \/ \E c \in Conns : Connect(c)
    \/ \E c \in Conns : \E name \in Authors :
         /\ ~AllLoggedIn
         /\ LoginFits(c, name, StoreJoins, MaxPending)
         /\ Login(c, name)
    \/ \E c \in Conns : \E target \in SendTargets : \E text \in Texts :
         \E type \in Types : \E replyTo \in ReplyTos :
           /\ AllLoggedIn
           /\ Pending < MaxPending
           /\ SendsSoFar < MaxSends
           /\ ChatMessage(c, target, text, type, replyTo)
    \/ \E c \in Conns : \E id \in Ids :
         AllLoggedIn /\ Pending < MaxPending /\ DeleteMessage(c, id)
    \/ \E c \in Conns : AllLoggedIn /\ Pending < MaxPending /\ ClearChat(c)
    \/ \E t \in BagToSet(tasks) : StoreSelect(t)
    \/ \E t \in BagToSet(tasks) : StoreInsert(t)
    \/ \E t \in BagToSet(tasks) : StoreDelete(t)
    \/ \E t \in BagToSet(tasks) : ResumeHistory(t)
    \/ \E t \in BagToSet(tasks) : ResumeInsert(t)
    \/ \E t \in BagToSet(tasks) : ResumeDelete(t)
    \/ \E t \in BagToSet(tasks) : ResumeDeleteChecked(t)
    \/ \E t \in BagToSet(tasks) : ResumeClear(t)

SpecAnnounced == InitAnnounced /\ [][NextAnnounced]_vars

\* Notice of a deletion: sends and deletes of sockets that log in once,
\* under any of the names, the receiver of a direct message connected or not.
NextNotice ==
    \/ \E c \in Conns : \E name \in Names :
         /\ username[c] = NoUser
         /\ LoginFits(c, name, StoreJoins, QueryPending)
         /\ Login(c, name)
    \/ \E c \in Conns : Connect(c)
    \/ \E c \in Conns : \E target \in SendTargets : \E text \in Texts :
         \E type \in Types : \E replyTo \in ReplyTos :
           /\ Pending < QueryPending
           /\ SendsSoFar < RoutedSends
           /\ ChatMessage(c, target, text, type, replyTo)
    \/ \E c \in Conns : \E id \in Ids :
         Pending < QueryPending /\ DeleteMessage(c, id)
    \/ \E t \in BagToSet(tasks) : StoreSelect(t)
    \/ \E t \in BagToSet(tasks) : StoreInsert(t)
    \/ \E t \in BagToSet(tasks) : StoreDelete(t)
    \/ \E t \in BagToSet(tasks) : ResumeHistory(t)
    \/ \E t \in BagToSet(tasks) : ResumeInsert(t)
    \/ \E t \in BagToSet(tasks) : ResumeDelete(t)
    \/ \E t \in BagToSet(tasks) : ResumeDeleteChecked(t)

SpecNotice == Init /\ [][NextNotice]_vars

\* Early requests: the module loads and listens while setupDatabase() runs,
\* and clients connect, log in and open chats.
NextEarly ==
    \/ Listen
    \/ SetupSucceeds
    \/ SetupFails
    \/ \E c \in Conns : Connect(c)
    \/ \E c \in Conns : \E name \in Authors :
         LoginFits(c, name, StoreJoins, MaxPending) /\ Login(c, name)
    \/ \E c \in Conns : \E target \in Targets :
         Pending < MaxPending /\ JoinChat(c, target)
    \/ \E t \in BagToSet(tasks) : StoreSelect(t)
    \/ \E t \in BagToSet(tasks) : ResumeHistory(t)

SpecEarly == InitStartup /\ [][NextEarly]_vars

\* Cancellation: sends of sockets that may disconnect while their INSERT
\* is awaited.
NextCancel ==
    \/ \E c \in Conns : Connect(c)
    \/ \E c \in Conns : \E name \in Authors :
         LoginFits(c, name, StoreJoins, MaxPending) /\ Login(c, name)
    \/ \E c \in Conns : Disconnect(c)
    \/ \E c \in Conns : \E target \in SendTargets : \E text \in Texts :
         \E type \in Types : \E replyTo \in ReplyTos :
           /\ Pending < MaxPending
           /\ SendsSoFar < RoutedSends
           /\ ChatMessage(c, target, text, type, replyTo)
    \/ \E t \in BagToSet(tasks) : StoreSelect(t)
    \/ \E t \in BagToSet(tasks) : StoreInsert(t)
    \/ \E t \in BagToSet(tasks) : ResumeHistory(t)
    \/ \E t \in BagToSet(tasks) : ResumeInsert(t)

\* The store answers every query, and the event loop resumes every handler
\* whose query was answered.
SpecCancel ==
    /\ Init
    /\ [][NextCancel]_vars
    /\ WF_vars(\E t \in BagToSet(tasks) : StoreInsert(t))
    /\ WF_vars(\E t \in BagToSet(tasks) : ResumeInsert(t))

(***************************************************************************)
(* Properties.                                                             *)
(***************************************************************************)
\* The copies of a chat message that the latest step delivered to socket c.
Copies(c) ==
    Cardinality({i \in DOMAIN out :
                   out[i].event = "chat_message" /\ c \in out[i].to})

\* The live sockets that are logged in.
Authenticated == {c \in Live : username[c] # NoUser}

\* Row r of direct_messages is a message from a to b.
FromTo(r, a, b) == r.sender = a /\ r.receiver = b

\* C1: every direct message from A to B that is in the table and inside the
\* retention window is in the history result of a join_chat by A with
\* target B and of a join_chat by B with target A: the query of such a
\* request returns the row, and the requester is sent the result.
C1_DirectHistoryContainsMessage ==
    [][\A t \in BagToSet(tasks) :
         /\ (t.kind = "history" /\ t.target # "global" /\ StoreSelect(t)) =>
               \E u \in BagToSet(tasks') :
                   /\ tasks' = Replace(t, u)
                   /\ u.phase = "done"
                   /\ \A r \in direct_messages :
                        ( /\ r.timestamp > t.ts
                          /\ FromTo(r, t.user, t.target)
                               \/ FromTo(r, t.target, t.user) )
                        => \E i \in DOMAIN u.res : u.res[i] = r
         /\ (t.kind = "history" /\ t.target # "global" /\ ResumeHistory(t)) =>
               /\ Len(out') = 1
               /\ out'[1].event = "chat_history"
               /\ out'[1].to = SocketEmit(t.conn)
               /\ DOMAIN out'[1].payload.history = DOMAIN t.res
               /\ \A i \in DOMAIN t.res :
                    out'[1].payload.history[i].id = t.res[i].id
      ]_vars

\* C2: a history result computed for a request of identity C holds no
\* direct message other than those C sent or received, and a result for the
\* global chat holds no direct message at all.
C2_NoThirdPartyHistory ==
    resumed.kind \in {"history", "loginHistory"} =>
        \A i \in DOMAIN out :
            out[i].event = "chat_history" =>
                \A j \in DOMAIN out[i].payload.history :
                    LET e == out[i].payload.history[j]
                    IN  "receiver" \in DOMAIN e =>
                            /\ resumed.target # "global"
                            /\ resumed.user \in {e.user, e.receiver}

\* A third identity asked for the chat with a party of a stored direct
\* message, and was sent a result.
C2_Witness ==
    /\ resumed.kind = "history"
    /\ resumed.phase = "done"
    /\ resumed.target # "global"
    /\ username[resumed.conn] = resumed.user
    /\ Len(out) = 1
    /\ \E r \in direct_messages :
         /\ resumed.user \notin {r.sender, r.receiver}
         /\ resumed.target \in {r.sender, r.receiver}
         /\ r.timestamp > resumed.ts

\* C3: the chat_message event of a direct message from A to B reaches only
\* sockets whose username is A or B (A as stored in the row, or as named in
\* the event).
C3_DirectOnlyToParticipants ==
    resumed.kind = "insertD" =>
        \A i \in DOMAIN out : \A c \in out[i].to :
            username[c] \in {resumed.user, out[i].payload.user, resumed.target}

\* C4: a direct message is delivered once to every socket in the union of
\* the author's and the target's rooms, and to no other socket.
C4_OneCopyPerConnection ==
    resumed.kind = "insertD" =>
        \A c \in Conns :
            Copies(c) = IF c \in IoToTo(username[resumed.conn], resumed.target)
                        THEN 1 ELSE 0

\* C5: a global message is delivered exactly once to every live socket that
\* is logged in, the sender's included.
C5_GlobalOnceToEveryAuthenticated ==
    resumed.kind = "insertG" => \A c \in Authenticated : Copies(c) = 1

\* A global message was published while two logged-in sockets were live, the
\* sender's among them.
C5_Witness ==
    /\ resumed.kind = "insertG"
    /\ Authenticated = Conns
    /\ \E c \in Conns : username[c] # username[resumed.conn]

\* C6: onlineUsers is the set of names of the live logged-in sockets.
C6_OnlineSetIsLiveIdentities ==
    onlineUsers = {username[c] : c \in Authenticated}

\* C7: when a socket logged in as X logs in as Y, it leaves the room of X,
\* X stays online only if another live socket is logged in as X, and the
\* socket receives no direct message of which it is not a party.
C7_RebindRemovesPriorBindings ==
    [][\A c \in Conns :
         /\ (username[c] # NoUser /\ username'[c] # username[c]) =>
               /\ username[c] \notin rooms'[c]
               /\ username[c] \in onlineUsers' =>
                      \E d \in Live \ {c} : username[d] = username[c]
         /\ \A i \in DOMAIN out' :
               ( /\ out'[i].event = "chat_message"
                 /\ "receiver" \in DOMAIN out'[i].payload
                 /\ c \in out'[i].to )
               => username'[c] \in {out'[i].payload.user,
                                    out'[i].payload.receiver}
      ]_vars

\* C8: the DELETE of clear_chat removes every row of messages and leaves
\* direct_messages as it is, whoever asked and whoever wrote the rows.
C8_ClearRemovesGlobalOnly ==
    [][\A t \in BagToSet(tasks) :
         (t.kind = "clear" /\ StoreDelete(t)) =>
             /\ messages' = {}
             /\ direct_messages' = direct_messages
      ]_vars

\* A clear removed rows of messages while direct_messages held a row.
C8_Witness ==
    \E t \in BagToSet(tasks) :
        /\ t.kind = "clear"
        /\ t.phase = "done"
        /\ t.res[1].rowCount > 0
        /\ messages = {}
        /\ direct_messages # {}

DeleteKinds == {"delG", "delD", "delGid", "delDid"}

\* The rows of either table with the id, written by the user of task t.
OwnRows(t) ==
    {r \in messages : r.id = t.id /\ r.user_name = t.user}
        \cup {r \in direct_messages : r.id = t.id /\ r.sender = t.user}

C10_DeletedOnlyWhenRemoved ==
    \A i \in DOMAIN out :
        out[i].event = "message_deleted" =>
            resumed.removed + resumed.res[1].rowCount > 0

\* The requests of the delete handlers that end with the notice.
LastDelete(t) == t.kind \in {"delD", "delGid"} /\ t.phase = "done"

\* C11: when the author of a row of messages asks to delete it by id, the
\* DELETE removes the row; the handler then emits message_deleted with the
\* id to every connected socket; a removed id is never assigned again, and
\* a global history query returns only rows that are in the table when it
\* runs, so no later read contains the message.
C11_AuthorDeletesGlobal ==
    [][/\ \A t \in BagToSet(tasks) :
            /\ ( /\ t.kind \in {"delG", "delGid"}
                 /\ StoreDelete(t)
                 /\ \E r \in messages : r.id = t.id /\ r.user_name = t.user )
               => /\ ~ \E r \in messages' : r.id = t.id
                  /\ \E u \in BagToSet(tasks') :
                        tasks' = Replace(t, u) /\ u.res[1].rowCount = 1
            /\ ( /\ LastDelete(t)
                 /\ ResumeDelete(t) \/ ResumeDeleteChecked(t)
                 /\ IF t.kind = "delD" THEN t.removed > 0
                    ELSE t.res[1].rowCount > 0 )
               => out' = << Emission("message_deleted", t.id, Live) >>
            /\ ( /\ t.kind \in {"history", "loginHistory"}
                 /\ t.target = "global"
                 /\ StoreSelect(t) )
               => \E u \in BagToSet(tasks') :
                     /\ tasks' = Replace(t, u)
                     /\ \A i \in DOMAIN u.res : u.res[i] \in messages
       /\ \A r \in messages' : r \in messages \/ (r.id = seqG /\ seqG' > seqG)
       /\ \A r \in messages' : r.id < seqG'
      ]_vars

\* The author's request removed the row of messages and the notice went to
\* two connected sockets, one of them not logged in.
C11_Witness ==
    /\ LastDelete(resumed)
    /\ IF resumed.kind = "delD" THEN resumed.removed = 1
       ELSE resumed.res[1].rowCount = 1
    /\ Len(out) = 1
    /\ out[1].event = "message_deleted"
    /\ out[1].to = Conns
    /\ \E c \in Conns : username[c] = NoUser

\* C12: one delete request removes at most one row in total: when its
\* DELETE on messages removed a row, its DELETE on direct_messages removes
\* none, also when the requester wrote rows with the same id in both tables.
C12_AtMostOneRowPerRequest ==
    \A t \in BagToSet(tasks) :
        (t.kind \in DeleteKinds /\ t.phase = "done") =>
            t.removed + t.res[1].rowCount <= 1

\* The history results of the latest step.
HistoryResults ==
    {out[i].payload.history : i \in {j \in DOMAIN out : out[j].event = "chat_history"}}

\* C13: every history result lists its messages in non-decreasing id order,
\* also when the messages come from sends of different sockets that took
\* their timestamps before their inserts were executed.
C13_HistoryInIdOrder ==
    \A h \in HistoryResults :
        \A i, j \in DOMAIN h : i < j => h[i].id <= h[j].id

\* A history result whose ids decrease while its timestamps increase: the
\* later send was inserted first.
C13_RaceOutcome ==
    \E h \in HistoryResults :
        \E i, j \in DOMAIN h :
            i < j /\ h[i].id > h[j].id /\ h[i].timestamp < h[j].timestamp

\* C14: every message of a history result, of the global chat and of a
\* direct chat alike, has timestamp >= now - retention, where now is the
\* clock the handler read for the query (the task keeps now - retention).
C14_HistoryWithinRetention ==
    resumed.kind \in {"history", "loginHistory"} =>
        \A h \in HistoryResults :
            \A i \in DOMAIN h : h[i].timestamp >= resumed.ts

\* A history result with a message, read while the table of its chat held
\* an older row, from before the retention window.
C14_Witness ==
    /\ resumed.kind \in {"history", "loginHistory"}
    /\ \E h \in HistoryResults : Len(h) > 0
    /\ IF resumed.target = "global"
       THEN \E r \in messages : r.timestamp < resumed.ts
       ELSE \E r \in direct_messages :
               /\ r.timestamp < resumed.ts
               /\ FromTo(r, resumed.user, resumed.target)
                    \/ FromTo(r, resumed.target, resumed.user)

\* The kind of a message in an envelope of a history result.
KindOf(e) == IF "type" \in DOMAIN e THEN e.type ELSE e.message_type

\* The rows of the chat that the history request t asks for, written at the
\* second of the request.
JustSent(t) ==
    {r \in IF t.target = "global" THEN messages
           ELSE {d \in direct_messages :
                   FromTo(d, t.user, t.target) \/ FromTo(d, t.target, t.user)} :
        r.timestamp = t.ts + RetentionSeconds(variant)}

\* The author of a row of either table.
AuthorOf(r) == IF "sender" \in DOMAIN r THEN r.sender ELSE r.user_name

\* C15: round trip.  A history request for the chat a message was just
\* stored in (the global chat, or the direct chat with the same counterpart)
\* reads the row, and the requester is sent a result with an envelope whose
\* id, author, body and kind are those of the row: the id the INSERT
\* assigned, the sender's name, and the text and type that were submitted.
C15_RoundTrip ==
    [][\A t \in BagToSet(tasks) :
         /\ (t.kind = "history" /\ StoreSelect(t)) =>
               \E u \in BagToSet(tasks') :
                   /\ tasks' = Replace(t, u)
                   /\ \A r \in JustSent(t) :
                        /\ u.phase = "done"
                        /\ \E i \in DOMAIN u.res : u.res[i] = r
         /\ (t.kind = "history" /\ t.phase = "done" /\ ResumeHistory(t)) =>
               /\ Len(out') = 1
               /\ out'[1].event = "chat_history"
               /\ out'[1].to = SocketEmit(t.conn)
               /\ DOMAIN out'[1].payload.history = DOMAIN t.res
               /\ \A i \in DOMAIN t.res :
                    LET e == out'[1].payload.history[i]
                    IN  /\ e.id = t.res[i].id
                        /\ e.user = AuthorOf(t.res[i])
                        /\ e.text = t.res[i].text
                        /\ KindOf(e) = t.res[i].message_type
      ]_vars

\* An event of a client arrives from socket c.
EventFrom(c) ==
    \/ \E target \in Targets : JoinChat(c, target)
    \/ \E target \in SendTargets : \E text \in Texts : \E type \in Types :
         \E replyTo \in ReplyTos : ChatMessage(c, target, text, type, replyTo)
    \/ \E id \in Ids : DeleteMessage(c, id)
    \/ ClearChat(c)
    \/ Typing(c)
    \/ StopTyping(c)

\* A later step of the handler of task t.
LaterStep(t) ==
    \/ StoreSelect(t) \/ StoreInsert(t) \/ StoreDelete(t)
    \/ ResumeHistory(t) \/ ResumeInsert(t) \/ ResumeDelete(t)
    \/ ResumeDeleteChecked(t) \/ ResumeClear(t)

\* The latest step delivered no event to any socket.
Silent == \A i \in DOMAIN out : out[i].to = {}

\* C16: an event from a socket that is not logged in is dropped silently:
\* neither the handler's first step nor any later step of a handler that
\* runs without a name changes the tables or emits an event.
C16_AnonymousEventsDropped ==
    [][/\ \A c \in Conns :
            (username[c] = NoUser /\ EventFrom(c)) =>
                Silent' /\ UNCHANGED Store
       /\ \A t \in BagToSet(tasks) :
            (t.user = NoUser /\ username[t.conn] = NoUser /\ LaterStep(t)) =>
                Silent' /\ UNCHANGED Store
      ]_vars

\* The step changed no name, room or online set, suspended no handler, and
\* emitted neither the acknowledgement of a login (login_success,
\* callback(true)) nor update_user_list nor the notice of an arrival.
NothingOfALogin ==
    /\ username' = username
    /\ rooms' = rooms
    /\ onlineUsers' = onlineUsers
    /\ tasks' = tasks
    /\ \A i \in DOMAIN out' :
         /\ out'[i].event \notin {"login_success", "update_user_list",
                                  "system_message"}
         /\ out'[i].event = "login_callback" => out'[i].payload = FALSE

\* C17: a login with an empty or absent name is a no-op: the socket stays
\* as it was, it joins no room, the online set is unchanged, and neither
\* the acknowledgement of a login nor update_user_list is emitted.
C17_EmptyLoginIsNoOp ==
    [][\A c \in Conns : NothingOfALogin \/ ~Login(c, NoUser)]_vars

\* A socket that is not logged in was refused a login while another socket
\* was online.
C17_Witness ==
    \E c \in Live :
        /\ username[c] = NoUser
        /\ rooms[c] = {}
        /\ onlineUsers # {}
        /\ Len(out) = 1
        /\ out[1].event = "login_callback"
        /\ out[1].to = {c}
        /\ out[1].payload = FALSE

\* The presence view p tells of every name of the roster whether it is in
\* the set online: the roster with isOnline (server1), or the set of the
\* names that are online (server2, part003).
FullView(p, online) ==
    IF variant = "server1"
    THEN /\ DOMAIN p = 1..Len(ALL_USERS)
         /\ \A i \in DOMAIN p :
              /\ p[i].name = ALL_USERS[i]
              /\ p[i].isOnline = (ALL_USERS[i] \in online)
    ELSE \A n \in allowedUsers : (n \in p) = (n \in online)

\* The step emitted update_user_list once, to every live socket, with the
\* view of the online set as the step leaves it.
OnePresenceUpdate ==
    /\ Cardinality({i \in DOMAIN out' : out'[i].event = "update_user_list"}) = 1
    /\ \A i \in DOMAIN out' :
         out'[i].event = "update_user_list" =>
             /\ out'[i].to = Live'
             /\ FullView(out'[i].payload, onlineUsers')

\* The step emitted no update_user_list.
NoPresenceUpdate == \A i \in DOMAIN out' : out'[i].event # "update_user_list"

\* C18: every accepted login and every disconnection of a logged-in socket
\* emits update_user_list once to every live socket, with the full view of
\* the online set at that time; the disconnection of a socket that is not
\* logged in emits none.
C18_PresenceAfterLoginAndDisconnect ==
    [][/\ OnePresenceUpdate
          \/ ~ \E c \in Conns :
                 \/ \E name \in Names :
                      LoginAccepted(variant, name) /\ Login(c, name)
                 \/ username[c] # NoUser /\ Disconnect(c)
       /\ NoPresenceUpdate
          \/ ~ \E c \in Conns : username[c] = NoUser /\ Disconnect(c)
      ]_vars

\* A logged-in socket disconnected while another name was online, and the
\* remaining live sockets were sent the view.
C18_Witness ==
    /\ Live # {}
    /\ onlineUsers # {}
    /\ \E c \in Conns :
         /\ status[c] = "closed"
         /\ username[c] # NoUser
         /\ username[c] \notin onlineUsers
    /\ \E i \in DOMAIN out :
         out[i].event = "update_user_list" /\ out[i].to = Live
    /\ \A i \in DOMAIN out :
         out[i].event \notin {"login_success", "login_callback"}

\* The inserts that are issued and not yet executed, with their numbers.
IssuedInserts(ts) ==
    [t \in {u \in BagToSet(ts) : u.kind \in {"insertG", "insertD"}
                                   /\ u.phase = "issued"} |-> ts[t]]

\* C19: when the INSERT of a chat message is rejected, the send is aborted:
\* no row is added to either table, no chat_message is emitted, the INSERT
\* is not issued again, and the sockets stay as they are, so the server
\* handles their later events.
C19_FailedInsertAborts ==
    [][\A t \in BagToSet(tasks) :
         /\ (t.kind \in {"insertG", "insertD"} /\ StoreReject(t)) =>
               /\ UNCHANGED Store
               /\ out' = <<>>
         /\ ( /\ t.kind \in {"insertG", "insertD"}
              /\ t.phase = "failed"
              /\ ResumeInsertFailed(t) ) =>
               /\ UNCHANGED Store
               /\ \A i \in DOMAIN out' : out'[i].event # "chat_message"
               /\ IssuedInserts(tasks') = IssuedInserts(tasks)
               /\ t \notin DOMAIN tasks' \/ tasks'[t] < tasks[t]
               /\ UNCHANGED <<status, username, rooms, onlineUsers>>
      ]_vars

\* The catch block of a send ran while two sockets were logged in: nothing
\* was delivered, no row was written, and no send is in flight.
C19_Witness ==
    /\ resumed.kind \in {"insertG", "insertD"}
    /\ resumed.phase = "failed"
    /\ out = <<>>
    /\ Authenticated = Conns
    /\ messages = {} /\ direct_messages = {}
    /\ tasks = EmptyBag

\* C20: when setupDatabase() fails, the start of the process is aborted:
\* the server does not listen and no client is connected to it.
C20_SetupFailureAbortsStartup ==
    setup = "failed" => (~listening /\ \A c \in Conns : status[c] = "fresh")

\* A login was acknowledged after setupDatabase() had failed.
C20_ServedAfterFailure ==
    /\ setup = "failed"
    /\ \E i \in DOMAIN out : out[i].event \in {"login_success", "login_callback"}

\* C21: a socket goes from not logged in to logged in and then to closed,
\* and no other way: once socket.username is a name X it stays X (a later
\* login on the socket does not change it, and it never becomes empty
\* again), and a closed socket does not open again.
C21_IdentityBoundOnce ==
    [][\A c \in Conns :
         /\ username[c] # NoUser => username'[c] = username[c]
         /\ status[c] = "closed" => status'[c] = "closed"
      ]_vars

TypingEvents == {"user_typing", "user_stop_typing"}

\* C22: the typing handlers only broadcast: both tables, the sequences of
\* their ids and the online set stay as they are, and the signal, when the
\* handler emits one (a logged-in socket always does), goes to every other
\* connected socket and not to the sender.
C22_TypingBroadcastOnly ==
    [][\A c \in Conns :
         ( /\ \A i \in DOMAIN out' : out'[i].event \in TypingEvents
           /\ Typing(c) \/ StopTyping(c) )
         => /\ UNCHANGED <<messages, direct_messages, seqG, seqD, onlineUsers>>
            /\ Len(out') <= 1
            /\ username[c] # NoUser => Len(out') = 1
            /\ \A i \in DOMAIN out' :
                 /\ out'[i].to = Live \ {c}
                 /\ out'[i].payload = username[c]
      ]_vars

\* A logged-in socket's signal reached the other connected socket and not
\* the sender, while a message was stored.
C22_Witness ==
    /\ Len(out) = 1
    /\ out[1].event \in TypingEvents
    /\ messages # {}
    /\ \E c \in Live :
         /\ username[c] = out[1].payload
         /\ username[c] # NoUser
         /\ out[1].to = Live \ {c}
         /\ out[1].to # {}

\* The chat_message envelopes of the latest step.
Created == {out[i].payload : i \in {j \in DOMAIN out : out[j].event = "chat_message"}}

\* C23: persist before route.  Every chat_message that is emitted is the
\* message of a row that the store has inserted, in the table of its chat
\* (direct_messages when the envelope names a receiver, messages otherwise),
\* with the id the INSERT returned and the same author, text and timestamp.
C23_PersistBeforeRoute ==
    \A e \in Created :
        IF "receiver" \in DOMAIN e
        THEN \E r \in direct_messages :
                /\ r.id = e.id /\ r.sender = e.user /\ r.receiver = e.receiver
                /\ r.text = e.text /\ r.timestamp = e.timestamp
        ELSE \E r \in messages :
                /\ r.id = e.id /\ r.user_name = e.user
                /\ r.text = e.text /\ r.timestamp = e.timestamp

InsertKinds == {"insertG", "insertD"}

\* The sockets that are connected and in one of the rooms.
InRooms(rs) == {c \in Live : rooms[c] \cap rs # {}}

\* The latest step resumed a send after its INSERT and emitted its
\* chat_message.
Broadcast ==
    /\ resumed.kind \in InsertKinds
    /\ resumed.phase = "done"
    /\ Created # {}

\* C24: a disconnection cancels no INSERT that the socket's send has
\* issued: the handlers awaiting the store and the tables are as before;
\* when the handler of a closed socket resumes, it emits chat_message to the
\* sockets that are then connected (all of them for a global message, those
\* in the rooms of the sender and the target for a direct one); and every
\* INSERT that has completed is eventually followed by its chat_message.
C24_InsertSurvivesDisconnect ==
    /\ [][/\ \A c \in Conns :
               Disconnect(c) => (tasks' = tasks /\ UNCHANGED Store)
          /\ \A t \in BagToSet(tasks) :
               ( /\ t.kind \in InsertKinds
                 /\ status[t.conn] = "closed"
                 /\ ResumeInsert(t) )
               => /\ out' # <<>>
                  /\ \A i \in DOMAIN out' :
                       /\ out'[i].event = "chat_message"
                       /\ out'[i].payload.id = t.res[1].id
                  /\ UNION {out'[i].to : i \in DOMAIN out'}
                       = IF t.kind = "insertG" THEN Live
                         ELSE InRooms({username[t.conn], t.target})
         ]_vars
    /\ (\E t \in BagToSet(tasks) : t.kind \in InsertKinds /\ t.phase = "done")
         ~> Broadcast

\* The send of a socket that has disconnected was stored, and its
\* chat_message reached a socket that is connected.
C24_Witness ==
    /\ Broadcast
    /\ status[resumed.conn] = "closed"
    /\ \E i \in DOMAIN out : out[i].to # {}
    /\ messages # {} \/ direct_messages # {}

\* Send a of a socket was emitted by the client before send b of the same
\* socket: its handler read an earlier clock.
SentBefore(a, b) ==
    /\ a.kind = "insertG" /\ b.kind = "insertG"
    /\ a.conn = b.conn
    /\ a.ts < b.ts

\* C25: the events of one socket are handled in the order the socket
\* emitted them: of two global sends of one socket, the earlier is inserted
\* first (it receives the smaller id), and its chat_message is emitted
\* before that of the later.
C25_PerConnectionOrder ==
    /\ \A a, b \in BagToSet(tasks) :
         (SentBefore(a, b) /\ b.phase = "done") =>
             /\ a.phase = "done"
             /\ a.res[1].id < b.res[1].id
    /\ \A a \in BagToSet(tasks) :
         resumed.kind = "insertG" => ~SentBefore(a, resumed)

\* C26: the registry is updated in one step.  A login leaves the socket
\* with its name, in the room of that name, and the name in the online
\* set; a disconnection leaves the socket in no room and its name out of
\* the online set; so after every step, whichever handler takes the next
\* one, every connected socket that has a name is in the room of that name.
C26_RegistryUpdatedInOneStep ==
    [][\A c \in Conns :
         /\ (status'[c] = "open" /\ username'[c] # NoUser) =>
                username'[c] \in rooms'[c]
         /\ username'[c] # username[c] => username'[c] \in onlineUsers'
         /\ (status[c] = "open" /\ status'[c] = "closed") =>
                /\ rooms'[c] = {}
                /\ username[c] # NoUser => username[c] \notin onlineUsers'
      ]_vars

\* A direct message was routed to a socket whose login handler is still
\* awaiting its history query.
C26_Witness ==
    /\ resumed.kind = "insertD"
    /\ \E c \in Live : \E t \in BagToSet(tasks) :
         /\ t.kind = "loginHistory"
         /\ t.conn = c
         /\ c # resumed.conn
         /\ username[c] = resumed.target
         /\ \E i \in DOMAIN out : c \in out[i].to

\* The envelopes a history read returns for the stored message that the
\* chat_message envelope e is about.
HistoryEnvelopes(e) ==
    IF "receiver" \in DOMAIN e
    THEN {DirectHistoryRow(variant, r) : r \in {d \in direct_messages : d.id = e.id}}
    ELSE {GlobalHistoryRow(variant, r) : r \in {m \in messages : m.id = e.id}}

\* C27: the envelope emitted as chat_message and the envelope a history
\* read returns for the same message are equal field by field (id, author,
\* text, type, timestamp, reply, private flag, receiver), for both tables,
\* also when the sender gave no type or no reply.
C27_SameEnvelopeLiveAndHistory ==
    \A e \in Created : \A h \in HistoryEnvelopes(e) : h = e

\* The events of the global chat.
GlobalEvents == {"chat_message", "message_deleted", "chat_cleared",
                 "update_user_list"}

\* C28: a connection that has not logged in receives no chat_message,
\* message_deleted, chat_cleared or update_user_list event, whatever the
\* other connections do.
C28_AnonymousOutsideGlobal ==
    \A i \in DOMAIN out :
        out[i].event \in GlobalEvents =>
            \A c \in out[i].to : username[c] # NoUser

\* No step changes a field of a row that both tables keep.
RowsUnchanged ==
    /\ \A r \in messages : \A q \in messages' : r.id = q.id => r = q
    /\ \A r \in direct_messages : \A q \in direct_messages' :
          r.id = q.id => r = q

\* The step executes a DELETE of the row r of direct_messages that a
\* connection issued under the name of r's sender.
DeletedByAuthor(r) ==
    \E t \in BagToSet(tasks) :
        /\ t.phase = "issued"
        /\ t.kind \in {"delD", "delDid"}
        /\ t.id = r.id
        /\ t.user = r.sender
        /\ Done(t, <<[rowCount |-> 1]>>) \in BagToSet(tasks')

\* The step is the end of setupDatabase() in part003, and r is older than
\* two weeks.
PurgedAtStartup(r) ==
    /\ variant = "part003"
    /\ setup = "running"
    /\ setup' = "ready"
    /\ r.timestamp < PurgeLimit(now)

\* C29: stored messages are immutable and direct messages are removed only
\* by their author: no step changes a field of an existing row, and a row
\* leaves direct_messages only in a delete_message of a connection bound to
\* the row's sender.
C29_RemovedByAuthorOnly ==
    [][/\ RowsUnchanged
       /\ \A r \in direct_messages \ direct_messages' : DeletedByAuthor(r)]_vars

\* C29 as amended: a row leaves direct_messages only in a delete_message of
\* a connection bound to the row's sender, or in the purge at startup of
\* the rows older than two weeks; no step changes a field of a row.
C29_RemovedByAuthorOrPurge ==
    [][/\ RowsUnchanged
       /\ \A r \in direct_messages \ direct_messages' :
             DeletedByAuthor(r) \/ PurgedAtStartup(r)]_vars

\* The sender of a direct message has deleted it.
C29_Witness ==
    /\ seqD > 1
    /\ direct_messages = {}
    /\ \E t \in BagToSet(tasks) :
          /\ t.kind \in {"delD", "delDid"}
          /\ t.phase = "done"
          /\ t.res[1].rowCount = 1

\* C30: every row of direct_messages has a receiver that is a non-empty
\* name, and every send is stored in exactly one table: a chat_message
\* whose target is absent or empty is never stored as a direct message
\* with no receiver.
C30_DirectHasCounterpart ==
    /\ \A r \in direct_messages : r.receiver # NoUser
    /\ Cardinality(messages) + Cardinality(direct_messages)
         = (seqG - 1) + (seqD - 1)

\* C31: a clear_chat whose DELETE fails is aborted: no chat_cleared is
\* emitted, and the failure stays inside the handler: the server goes on
\* listening and no socket is lost.
C31_FailedClearIsContained ==
    [][(resumed'.kind = "clear" /\ resumed'.phase = "failed") =>
          /\ \A i \in DOMAIN out' : out'[i].event # "chat_cleared"
          /\ listening'
          /\ status' = status]_vars

\* The ids of the rows of the table messages.
GlobalIds == {m.id : m \in messages}

\* C32: whenever no query is in flight, the ids that the chat_message,
\* message_deleted and chat_cleared events received by a socket add up to
\* are the ids of the table messages, for every socket logged in since
\* before the first send.
C32_AnnouncedIsStored ==
    (announced.on /\ tasks = EmptyBag) =>
        \A c \in Conns : announced.view[c] = GlobalIds

\* The names a direct message is sent to.
Counterparts == SendTargets \ {"global"}

\* C33: the message_deleted event of a deleted direct message reaches only
\* the sockets bound to its sender or to its receiver; the sockets logged
\* in under other names are not told.
C33_DirectDeletionToldToPair ==
    [][(/\ resumed'.kind \in {"delD", "delDid"}
        /\ resumed'.res[1].rowCount = 1) =>
          \A i \in DOMAIN out' :
              out'[i].event = "message_deleted" =>
                  \A c \in out'[i].to :
                      username'[c] \in {NoUser, resumed'.user} \cup Counterparts]_vars

\* C34: no query of a handler is issued before setupDatabase() has ended:
\* while it runs, no handler is at an await of the store.
C34_NoQueryBeforeSetup ==
    setup = "running" => tasks = EmptyBag

\* C35: a chat_history is delivered only to the socket whose request it
\* answers, never to another socket, not even one logged in under the same
\* name.
C35_HistoryToRequesterOnly ==
    \A i \in DOMAIN out :
        out[i].event = "chat_history" =>
            /\ resumed.kind \in {"history", "loginHistory"}
            /\ out[i].to \subseteq {resumed.conn}

\* A history is delivered to its requester while another socket is logged
\* in under the same name.
C35_Witness ==
    /\ resumed.kind = "history"
    /\ Len(out) = 1
    /\ out[1].event = "chat_history"
    /\ out[1].to = {resumed.conn}
    /\ \E d \in Live \ {resumed.conn} :
          /\ username[d] = username[resumed.conn]
          /\ username[d] \in rooms[d]
====
